---- MODULE Spec2Model ----
(***************************************************************************)
(* Model of scripts/generate_placeholder_icons.py: main() checks the       *)
(* output directory, then walks the sizes table in insertion order and     *)
(* calls create_placeholder_icon for each entry.  The environment (the     *)
(* directory, the installed fonts, the glyph metrics the font library      *)
(* reports) is chosen in Init and does not change; a save may fail at any  *)
(* entry.  The script may be run again over the files an earlier run left. *)
(***************************************************************************)
EXTENDS Integers, Sequences, FiniteSets, TLC

\* ---------------------------------------------------------------- bounds
MaxRuns == 2        \* how many times the script is invoked
MaxBearing == 1     \* largest left/top offset of the glyph box at origin

\* ------------------------------------------------------- the static table
output_dir == "SwipeSort/Assets.xcassets/AppIcon.appiconset"

\* The dict literal, in insertion order (the order sizes.items() yields).
sizes ==
  << [filename |-> "AppIcon-20x20@1x.png",     width |-> 20,   height |-> 20],
     [filename |-> "AppIcon-20x20@2x.png",     width |-> 40,   height |-> 40],
     [filename |-> "AppIcon-20x20@3x.png",     width |-> 60,   height |-> 60],
     [filename |-> "AppIcon-29x29@1x.png",     width |-> 29,   height |-> 29],
     [filename |-> "AppIcon-29x29@2x.png",     width |-> 58,   height |-> 58],
     [filename |-> "AppIcon-29x29@3x.png",     width |-> 87,   height |-> 87],
     [filename |-> "AppIcon-40x40@1x.png",     width |-> 40,   height |-> 40],
     [filename |-> "AppIcon-40x40@2x.png",     width |-> 80,   height |-> 80],
     [filename |-> "AppIcon-40x40@3x.png",     width |-> 120,  height |-> 120],
     [filename |-> "AppIcon-60x60@2x.png",     width |-> 120,  height |-> 120],
     [filename |-> "AppIcon-60x60@3x.png",     width |-> 180,  height |-> 180],
     [filename |-> "AppIcon-76x76@1x.png",     width |-> 76,   height |-> 76],
     [filename |-> "AppIcon-76x76@2x.png",     width |-> 152,  height |-> 152],
     [filename |-> "AppIcon-83.5x83.5@2x.png", width |-> 167,  height |-> 167],
     [filename |-> "AppIcon-1024x1024.png",    width |-> 1024, height |-> 1024] >>

\* ------------------------------------------------------------ arithmetic
Min(a, b) == IF a <= b THEN a ELSE b
Max(a, b) == IF a >= b THEN a ELSE b

\* Bit strings are sequences of 0/1, least significant bit first.
RECURSIVE BitsOf(_)
BitsOf(n) == IF n = 0 THEN << >> ELSE << n % 2 >> \o BitsOf(n \div 2)

RECURSIVE ValueOf(_)
ValueOf(bits) ==
  IF bits = << >> THEN 0 ELSE Head(bits) + 2 * ValueOf(Tail(bits))

\* The IEEE-754 double nearest to 0.6 is 0x1.3333333333333p-1, that is
\* Mantissa06 * 2^-53 with Mantissa06 = 0x13333333333333 (53 bits).
Mantissa06 ==
  [i \in 1..53 |-> IF i = 53 THEN 1 ELSE IF (i - 1) % 4 < 2 THEN 1 ELSE 0]

\* Exact product of a bit string by a small natural number.
RECURSIVE MulBits(_, _, _, _)
MulBits(bits, n, i, carry) ==
  IF i > Len(bits) THEN BitsOf(carry)
  ELSE LET t == bits[i] * n + carry
       IN  << t % 2 >> \o MulBits(bits, n, i + 1, t \div 2)

RECURSIVE IncBits(_)
IncBits(bits) ==
  IF bits = << >> THEN << 1 >>
  ELSE IF Head(bits) = 0 THEN << 1 >> \o Tail(bits)
  ELSE << 0 >> \o IncBits(Tail(bits))

\* Round an exact product to 53 significant bits, ties to even; the result
\* is the bit string of the rounded value at the same scale.
RoundDouble(p) ==
  IF Len(p) <= 53 THEN p
  ELSE LET d      == Len(p) - 53
           kept   == SubSeq(p, d + 1, Len(p))
           guard  == p[d]
           sticky == \E j \in 1..(d - 1) : p[j] = 1
           up     == guard = 1 /\ (sticky \/ kept[1] = 1)
           zeros  == [j \in 1..d |-> 0]
       IN  zeros \o (IF up THEN IncBits(kept) ELSE kept)

\* int(n * 0.6): the double product, truncated toward zero.
IntTimes06(n) ==
  LET r == RoundDouble(MulBits(Mantissa06, n, 1, 0))
  IN  IF Len(r) <= 53 THEN 0 ELSE ValueOf(SubSeq(r, 54, Len(r)))

\* ----------------------------------------------- create_placeholder_icon
border_radius(width, height) == Min(width, height) \div 8

\* Variant: the stroke without its one-pixel floor.
outline_width_NoFloor(width) == width \div 64

outline_width(width) == Max(1, width \div 64)

\* Variant: 60% rounded to nearest instead of truncated.
font_size_of_Rounded(width, height) == (6 * Min(width, height) + 5) \div 10

font_size_of(width, height) == IntTimes06(Min(width, height))

\* ImageFont.load_default(): the built-in font, loaded without a size.
LoadDefault == [name |-> "default", size |-> 0]

\* ImageFont.truetype(path, size): the font, or a raised error.
TrueType(loads, path, size) ==
  IF loads THEN [raised |-> FALSE, font |-> [name |-> path, size |-> size]]
  ELSE [raised |-> TRUE, font |-> LoadDefault]

\* Variant: the chain without its last fallback lets the error escape.
ResolveFont_NoDefault(helv, arial, size) ==
  LET h == TrueType(helv, "/System/Library/Fonts/Helvetica.ttc", size)
      a == TrueType(arial, "/System/Library/Fonts/Supplemental/Arial.ttf", size)
  IN  IF ~h.raised THEN [raised |-> FALSE, font |-> h.font] ELSE a

\* The nested try/except chain: Helvetica, then Arial, then the default;
\* the bare except clauses swallow every error.
ResolveFont(helv, arial, size) ==
  LET h == TrueType(helv, "/System/Library/Fonts/Helvetica.ttc", size)
      a == TrueType(arial, "/System/Library/Fonts/Supplemental/Arial.ttf", size)
  IN  IF ~h.raised THEN [raised |-> FALSE, font |-> h.font]
      ELSE IF ~a.raised THEN [raised |-> FALSE, font |-> a.font]
      ELSE [raised |-> FALSE, font |-> LoadDefault]

\* draw.textbbox((0, 0), "S", font): (left, top, right, bottom).  The box is
\* a function of the font alone; g holds the metrics of the installed font.
TextBBox(g, font) ==
  LET em == IF font.name = "default" THEN 10 ELSE font.size
  IN  << g.l, g.t, g.l + (2 * em) \div 3, g.t + em >>

text_width(bbox) == bbox[3] - bbox[1]
text_height(bbox) == bbox[4] - bbox[2]

\* Python's // is floor division, as is \div.
position(width, height, bbox) ==
  << (width - text_width(bbox)) \div 2,
     (height - text_height(bbox)) \div 2 - bbox[2] >>

\* draw.text(position, ...): the glyph's box on the canvas is the box at the
\* origin translated by position.
RenderedBox(pos, bbox) ==
  << pos[1] + bbox[1], pos[2] + bbox[2], pos[1] + bbox[3], pos[2] + bbox[4] >>

\* ------------------------------------------------------------------ state
VARIABLES
  dirExists,    \* os.path.exists(output_dir)
  helveticaOK,  \* Helvetica.ttc loads
  arialOK,      \* Supplemental/Arial.ttf loads
  glyph,        \* metrics the font library reports for "S"
  run,          \* which invocation of the script this is
  pc,           \* position in main() / create_placeholder_icon()
  k,            \* index in sizes of the entry the loop is at
  img,          \* the Image being drawn
  font_size,    \* local of create_placeholder_icon
  font,         \* local of create_placeholder_icon
  bbox,         \* local of create_placeholder_icon
  files,        \* the output directory: filename -> image content
  before,       \* the output directory as this invocation found it
  written,      \* filenames this invocation has saved, in order
  out,          \* lines this invocation has printed, in order
  error         \* the exception that ended this invocation, if any

env == << dirExists, helveticaOK, arialOK, glyph >>
locals == << img, font_size, font, bbox >>
vars == << dirExists, helveticaOK, arialOK, glyph, run, pc, k, img,
           font_size, font, bbox, files, before, written, out, error >>

NoFont == [name |-> "none", size |-> 0]
NoBBox == << 0, 0, 0, 0 >>
NoImg ==
  [width |-> 0, height |-> 0, background |-> "none", radius |-> 0,
   stroke |-> 0, corner |-> << 0, 0 >>, font |-> NoFont,
   position |-> << 0, 0 >>, glyphbox |-> NoBBox, text |-> "none"]

Line(kind, filename, width, height) ==
  [kind |-> kind, filename |-> filename, width |-> width, height |-> height]

ErrorLine == Line("Error: Directory does not exist", output_dir, 0, 0)
HeaderLines ==
  << Line("Generating placeholder app icons...", "", 0, 0),
     Line("Output directory:", output_dir, 0, 0) >>
CreatedLine(e) == Line("Created:", e.filename, e.width, e.height)
FooterLines ==
  << Line("All placeholder icons generated successfully!", "", 0, 0),
     Line("Note: These are temporary placeholder images.", "", 0, 0) >>

GlyphMetrics == [l : 0..MaxBearing, t : 0..MaxBearing]

entry == sizes[k]

Init ==
  /\ dirExists \in BOOLEAN
  /\ helveticaOK \in BOOLEAN
  /\ arialOK \in BOOLEAN
  /\ glyph \in GlyphMetrics
  /\ run = 1
  /\ pc = "main"
  /\ k = 1
  /\ img = NoImg
  /\ font_size = 0
  /\ font = NoFont
  /\ bbox = NoBBox
  /\ files = << >>
  /\ before = << >>
  /\ written = << >>
  /\ out = << >>
  /\ error = "none"

\* ---------------------------------------------------------------- main()
\* Variant: the diagnostic without the return falls through to the loop.
MissingDirectory_NoReturn ==
  /\ pc = "main"
  /\ ~dirExists
  /\ out' = Append(out, ErrorLine) \o HeaderLines
  /\ k' = 1
  /\ pc' = "loop"
  /\ UNCHANGED << env, run, locals, files, before, written, error >>

\* if not os.path.exists(output_dir): print the diagnostic and return.
MissingDirectory ==
  /\ pc = "main"
  /\ ~dirExists
  /\ out' = Append(out, ErrorLine)
  /\ pc' = "returned"
  /\ UNCHANGED << env, run, k, locals, files, before, written, error >>

\* The two header prints, then the loop starts at the first entry.
PrintHeader ==
  /\ pc = "main"
  /\ dirExists
  /\ out' = out \o HeaderLines
  /\ k' = 1
  /\ pc' = "loop"
  /\ UNCHANGED << env, run, locals, files, before, written, error >>

\* for filename, (width, height) in sizes.items(): call the renderer.
\* Image.new('RGB', (width, height), color) makes the canvas.
NewImage ==
  /\ pc = "loop"
  /\ k <= Len(sizes)
  /\ img' = [NoImg EXCEPT !.width = entry.width, !.height = entry.height,
                          !.background = "#4A90E2"]
  /\ font_size' = 0
  /\ font' = NoFont
  /\ bbox' = NoBBox
  /\ pc' = "rect"
  /\ UNCHANGED << env, run, k, files, before, written, out, error >>

\* Variant: the rectangle's far corner taken for the canvas size.
DrawRoundedRectangle_Shrinks ==
  /\ pc = "rect"
  /\ img' = [img EXCEPT !.radius = border_radius(entry.width, entry.height),
                        !.stroke = outline_width(entry.width),
                        !.corner = << entry.width - 1, entry.height - 1 >>,
                        !.width = entry.width - 1,
                        !.height = entry.height - 1]
  /\ pc' = "font"
  /\ UNCHANGED << env, run, k, font_size, font, bbox, files, before,
                  written, out, error >>

\* draw.rounded_rectangle([(0,0),(width-1,height-1)], radius, ..., width).
DrawRoundedRectangle ==
  /\ pc = "rect"
  /\ img' = [img EXCEPT !.radius = border_radius(entry.width, entry.height),
                        !.stroke = outline_width(entry.width),
                        !.corner = << entry.width - 1, entry.height - 1 >>]
  /\ pc' = "font"
  /\ UNCHANGED << env, run, k, font_size, font, bbox, files, before,
                  written, out, error >>

\* Variant: an icon that already exists on disk gets the default font.
LoadFont_SkipsExisting ==
  /\ pc = "font"
  /\ LET size == font_size_of(entry.width, entry.height)
         res  == ResolveFont(helveticaOK, arialOK, size)
     IN  /\ font_size' = size
         /\ font' = IF entry.filename \in DOMAIN files THEN LoadDefault
                    ELSE res.font
         /\ pc' = "bbox"
         /\ error' = error
  /\ UNCHANGED << env, run, k, img, bbox, files, before, written, out >>

\* font_size = int(min(width, height) * 0.6), then the fallback chain.
LoadFont ==
  /\ pc = "font"
  /\ LET size == font_size_of(entry.width, entry.height)
         res  == ResolveFont(helveticaOK, arialOK, size)
     IN  /\ font_size' = size
         /\ font' = res.font
         /\ IF res.raised
            THEN pc' = "raised" /\ error' = "font"
            ELSE pc' = "bbox" /\ error' = error
  /\ UNCHANGED << env, run, k, img, bbox, files, before, written, out >>

\* bbox = draw.textbbox((0, 0), "S", font=font)
MeasureText ==
  /\ pc = "bbox"
  /\ bbox' = TextBBox(glyph, font)
  /\ pc' = "text"
  /\ UNCHANGED << env, run, k, img, font_size, font, files, before,
                  written, out, error >>

\* position = (...); draw.text(position, "S", fill='white', font=font)
DrawText ==
  /\ pc = "text"
  /\ LET pos == position(entry.width, entry.height, bbox)
     IN  img' = [img EXCEPT !.font = font, !.position = pos,
                            !.glyphbox = RenderedBox(pos, bbox),
                            !.text = "S"]
  /\ pc' = "save"
  /\ UNCHANGED << env, run, k, font_size, font, bbox, files, before,
                  written, out, error >>

\* The directory after img.save(os.path.join(output_dir, filename), 'PNG').
SaveFile(fs, filename, image) ==
  [f \in DOMAIN fs \cup {filename} |-> IF f = filename THEN image ELSE fs[f]]

Save ==
  /\ pc = "save"
  /\ files' = SaveFile(files, entry.filename, img)
  /\ written' = Append(written, entry.filename)
  /\ pc' = "print"
  /\ UNCHANGED << env, run, k, locals, before, out, error >>

\* Variant: the confirmation printed before the save is attempted.
SaveFails_AfterPrint ==
  /\ pc = "save"
  /\ error' = "save"
  /\ out' = Append(out, CreatedLine(entry))
  /\ pc' = "raised"
  /\ UNCHANGED << env, run, k, locals, files, before, written >>

\* img.save raises (directory removed, disk full, no permission): nothing
\* catches it, so it leaves create_placeholder_icon and main.
SaveFails ==
  /\ pc = "save"
  /\ error' = "save"
  /\ pc' = "raised"
  /\ UNCHANGED << env, run, k, locals, files, before, written, out >>

\* Variant: the loop does not advance past the entry just confirmed.
PrintCreated_NoAdvance ==
  /\ pc = "print"
  /\ out' = Append(out, CreatedLine(entry))
  /\ k' = k
  /\ pc' = "loop"
  /\ UNCHANGED << env, run, locals, files, before, written, error >>

\* print("Created: ..."), return to the loop, which advances.
PrintCreated ==
  /\ pc = "print"
  /\ out' = Append(out, CreatedLine(entry))
  /\ k' = k + 1
  /\ pc' = "loop"
  /\ UNCHANGED << env, run, locals, files, before, written, error >>

\* Variant: the loop ends one entry early.
PrintFooter_Early ==
  /\ pc = "loop"
  /\ k >= Len(sizes)
  /\ out' = out \o FooterLines
  /\ pc' = "done"
  /\ UNCHANGED << env, run, k, locals, files, before, written, error >>

\* The loop is exhausted: the completion notice and the note.
PrintFooter ==
  /\ pc = "loop"
  /\ k > Len(sizes)
  /\ out' = out \o FooterLines
  /\ pc' = "done"
  /\ UNCHANGED << env, run, k, locals, files, before, written, error >>

\* The script is invoked again in the same environment; the new process
\* starts with fresh locals and finds the files the earlier runs left.
RunAgain ==
  /\ pc \in {"done", "returned", "raised"}
  /\ run < MaxRuns
  /\ run' = run + 1
  /\ pc' = "main"
  /\ k' = 1
  /\ img' = NoImg
  /\ font_size' = 0
  /\ font' = NoFont
  /\ bbox' = NoBBox
  /\ before' = files
  /\ written' = << >>
  /\ out' = << >>
  /\ error' = "none"
  /\ UNCHANGED << env, files >>

Next ==
  \/ MissingDirectory
  \/ PrintHeader
  \/ NewImage
  \/ DrawRoundedRectangle
  \/ LoadFont
  \/ MeasureText
  \/ DrawText
  \/ Save
  \/ SaveFails
  \/ PrintCreated
  \/ PrintFooter
  \/ RunAgain

Spec == Init /\ [][Next]_vars

\* ------------------------------------------------------------ properties
Filenames == { sizes[i].filename : i \in 1..Len(sizes) }
InRenderer == pc \in {"rect", "font", "bbox", "text", "save", "print"}
FontChosen == pc \in {"bbox", "text", "save", "print"}
Drawn == pc \in {"save", "print"}
Abs(x) == IF x < 0 THEN -x ELSE x
IsPrefix(s, t) == Len(s) <= Len(t) /\ s = SubSeq(t, 1, Len(s))
ExpectedFilenames == [i \in 1..Len(sizes) |-> sizes[i].filename]
ExpectedCreated == [i \in 1..Len(sizes) |-> CreatedLine(sizes[i])]
ExpectedOutput == HeaderLines \o ExpectedCreated \o FooterLines
EntryOf(f) == CHOOSE i \in 1..Len(sizes) : sizes[i].filename = f

\* C1: when the output directory does not exist, main() prints the
\* diagnostic and returns: nothing else is printed, the renderer is never
\* entered, nothing is saved and the directory holds no image file.
C1_MissingDirectoryAborts ==
  ~dirExists =>
    /\ pc \in {"main", "returned"}
    /\ pc = "returned" => out = << ErrorLine >>
    /\ pc = "main" => out = << >>
    /\ img = NoImg
    /\ written = << >>
    /\ files = << >>

C1_Witness == ~dirExists /\ pc = "returned" /\ out = << ErrorLine >>

\* C2: the canvas keeps the declared (width, height) of its entry from its
\* creation through every drawing step, and every saved file has exactly
\* the dimensions the table declares for its filename.
C2_DeclaredDimensions ==
  /\ InRenderer => img.width = entry.width /\ img.height = entry.height
  /\ \A f \in DOMAIN files :
       /\ f \in Filenames
       /\ files[f].width = sizes[EntryOf(f)].width
       /\ files[f].height = sizes[EntryOf(f)].height

C2_Witness ==
  /\ pc = "done"
  /\ DOMAIN files = Filenames
  /\ files["AppIcon-83.5x83.5@2x.png"].width = 167

\* C3: the rounded rectangle's radius r is floor(min(width,height)/8) and
\* its stroke s is max(1, floor(width/64)); 1024x1024 gives 128 and 16; the
\* stroke is at least one pixel for every declared size.
C3_RadiusAndStroke ==
  LET Holds(i, w, h) ==
        LET m == IF w <= h THEN w ELSE h
        IN  /\ 8 * i.radius <= m /\ m < 8 * (i.radius + 1)
            /\ i.stroke >= 1
            /\ w < 64 => i.stroke = 1
            /\ w >= 64 => 64 * i.stroke <= w /\ w < 64 * (i.stroke + 1)
            /\ (w = 1024 /\ h = 1024) => i.radius = 128 /\ i.stroke = 16
  IN  /\ pc \in {"font", "bbox", "text", "save", "print"} =>
           Holds(img, entry.width, entry.height)
      /\ \A f \in DOMAIN files :
           Holds(files[f], sizes[EntryOf(f)].width, sizes[EntryOf(f)].height)

C3_Witness ==
  /\ pc = "font"
  /\ entry.width = 1024
  /\ img.radius = 128
  /\ img.stroke = 16
  /\ files["AppIcon-20x20@1x.png"].stroke = 1

\* C4: the glyph's rendered box is centred on the canvas in both axes: the
\* left and right margins differ by at most one pixel, and so do the top
\* and bottom margins.
C4_GlyphCentred ==
  Drawn =>
    LET left   == img.glyphbox[1]
        top    == img.glyphbox[2]
        right  == img.width - img.glyphbox[3]
        bottom == img.height - img.glyphbox[4]
    IN  Abs(left - right) <= 1 /\ Abs(top - bottom) <= 1

\* C5: the font is the first of Helvetica, Arial that loads, else the
\* built-in default; whatever fonts are installed, a font is selected, no
\* font error ends the run, and a finished run has saved every icon with
\* that font.
C5_FontFallback ==
  LET expected == IF helveticaOK THEN "/System/Library/Fonts/Helvetica.ttc"
                  ELSE IF arialOK
                       THEN "/System/Library/Fonts/Supplemental/Arial.ttf"
                       ELSE "default"
  IN  /\ error # "font"
      /\ FontChosen => font.name = expected
      /\ Drawn => img.font = font
      /\ \A f \in DOMAIN files : files[f].font.name = expected
      /\ pc = "done" => DOMAIN files = Filenames

C5_Witness ==
  /\ ~helveticaOK
  /\ ~arialOK
  /\ pc = "done"
  /\ \A f \in Filenames : f \in DOMAIN files /\ files[f].font = LoadDefault

\* C6: with the directory present, the printed lines are always a prefix
\* of: header, one confirmation per entry in table order, completion
\* notice, note.  A confirmation is printed only after its file is saved,
\* and the completion notice only after all 15 files are written.
C6_OutputOrder ==
  dirExists =>
    /\ IsPrefix(out, ExpectedOutput)
    /\ pc # "main" => Len(out) >= Len(HeaderLines)
    /\ \A i \in 1..Len(sizes) :
         Len(out) >= Len(HeaderLines) + i =>
           /\ Len(written) >= i
           /\ written[i] = sizes[i].filename
           /\ sizes[i].filename \in DOMAIN files
    /\ Len(out) > Len(HeaderLines) + Len(sizes) =>
         /\ Len(written) = Len(sizes)
         /\ pc = "done"
    /\ pc = "done" => out = ExpectedOutput

C6_Witness ==
  /\ pc = "done"
  /\ Len(out) = 19
  /\ out[17] = CreatedLine(sizes[15])
  /\ out[18] = FooterLines[1]

\* C7: the 15 filenames are pairwise distinct and are saved in table
\* order, each once: entry k is saved before entry k+1 is generated, no
\* later entry overwrites an earlier file, and since saves of distinct
\* entries commute, the final files and sizes do not depend on the order.
C7_TableOrder ==
  LET sized(i) == [NoImg EXCEPT !.width = sizes[i].width,
                                !.height = sizes[i].height]
  IN  /\ Len(sizes) = 15
      /\ \A i, j \in 1..Len(sizes) :
           i # j => sizes[i].filename # sizes[j].filename
      /\ IsPrefix(written, ExpectedFilenames)
      /\ pc \in {"rect", "font", "bbox", "text", "save"} =>
           Len(written) = k - 1
      /\ pc \in {"print"} => Len(written) = k
      /\ pc = "done" =>
           /\ written = ExpectedFilenames
           /\ DOMAIN files = Filenames
           /\ \A i \in 1..Len(sizes) :
                /\ files[sizes[i].filename].width = sizes[i].width
                /\ files[sizes[i].filename].height = sizes[i].height
      /\ InRenderer =>
           \A i \in 1..Len(sizes) :
             i # k =>
               SaveFile(SaveFile(files, sizes[i].filename, sized(i)),
                        sizes[k].filename, sized(k))
               = SaveFile(SaveFile(files, sizes[k].filename, sized(k)),
                          sizes[i].filename, sized(i))

C7_Witness ==
  /\ pc = "done"
  /\ written = ExpectedFilenames
  /\ Cardinality(DOMAIN files) = 15

C9_FontSize ==
  FontChosen =>
    LET m == IF entry.width <= entry.height THEN entry.width
             ELSE entry.height
    IN  /\ 5 * font_size <= 3 * m
        /\ 3 * m < 5 * (font_size + 1)
        /\ m = 1024 => font_size = 614
        /\ font.name # "default" => font.size = font_size
        /\ font.name = "default" => font.size # font_size

C9_Witness ==
  /\ pc = "bbox"
  /\ entry.width = 1024
  /\ font = [name |-> "/System/Library/Fonts/Helvetica.ttc", size |-> 614]

\* C10: when saving entry k fails, the run has stopped at that entry: the
\* header was printed once, entries 1..k-1 are saved and confirmed, entry k
\* has no confirmation line, nothing after k was generated, and the
\* completion notice is absent.
C10_SaveFailureStops ==
  pc = "raised" =>
    /\ error = "save"
    /\ k \in 1..Len(sizes)
    /\ written = SubSeq(ExpectedFilenames, 1, k - 1)
    /\ out = HeaderLines \o SubSeq(ExpectedCreated, 1, k - 1)
    /\ \A i \in 1..(k - 1) :
         /\ sizes[i].filename \in DOMAIN files
         /\ files[sizes[i].filename].width = sizes[i].width
    /\ \A i \in k..Len(sizes) :
         sizes[i].filename \in DOMAIN files =>
           sizes[i].filename \in DOMAIN before
    /\ \A n \in 1..Len(out) : out[n] # FooterLines[1]

C10_Witness ==
  /\ pc = "raised"
  /\ k = 8
  /\ run = 1
  /\ Len(written) = 7
  /\ Cardinality(DOMAIN files) = 7

====
